---- MODULE Spec2Model ----
(***************************************************************************)
(* Relay policy of src/policy/policy.cpp: the dust threshold, the          *)
(* output-script classifier, the three standardness checks with their      *)
(* ignore set of rejection reasons, and the virtual transaction size.      *)
(*                                                                         *)
(* A script is an opaque byte string in the code. Here it is a record of   *)
(* what the collaborating script code reports about it (its template, its  *)
(* length, its signature-operation count, ...); the collaborators          *)
(* (Solver, EvalScript, IsPushOnly, ...) read those fields.                *)
(***************************************************************************)
EXTENDS Integers, Sequences, FiniteSets, TLC

VARIABLES
    tx,                 \* the transaction handed to the three checks
    mapInputs,          \* the coins view: outpoint -> previous TxOut
    witnessEnabled,     \* argument of IsStandardTx
    reason_prefix,      \* argument of AreInputsStandard / IsWitnessStandard
    ignore_rejects,     \* the ignore set of the call
    out_reason,         \* the caller's reason string (a reference argument)
    ret,                \* the value returned by the call
    pc,                 \* "start", "coins" once the spent coins are looked up,
                        \* or the name of the function that ran
    fIsBareMultisigStd, \* global tunables read by the checks
    fAcceptDatacarrier,
    dustRelayFee,
    nBytesPerSigOp,
    txout,              \* arguments of GetDustThreshold / IsDust
    dustRelayFeeIn,
    nWeight,            \* arguments of GetVirtualTransactionSize
    nSigOpCost

vars == <<tx, mapInputs, witnessEnabled, reason_prefix, ignore_rejects,
          out_reason, ret, pc, fIsBareMultisigStd, fAcceptDatacarrier,
          dustRelayFee, nBytesPerSigOp, txout, dustRelayFeeIn, nWeight,
          nSigOpCost>>

---------------------------------------------------------------------------
(* Program constants. Those of policy/policy.h, consensus/consensus.h and  *)
(* primitives/transaction.h are declared outside policy.cpp; they carry    *)
(* the values of the upstream headers.                                     *)

WITNESS_SCALE_FACTOR == 4
MAX_STANDARD_VERSION == 2
MAX_STANDARD_TX_WEIGHT == 400000
MAX_SCRIPTSIG_SIZE == 1650
MAX_P2SH_SIGOPS == 15
MAX_STANDARD_P2WSH_STACK_ITEMS == 100
MAX_STANDARD_P2WSH_STACK_ITEM_SIZE == 80
MAX_STANDARD_P2WSH_SCRIPT_SIZE == 3600
DUST_RELAY_TX_FEE == 3000
DEFAULT_BYTES_PER_SIGOP == 20
nMaxDatacarrierBytes == 83

\* txnouttype
TX_NONSTANDARD == "TX_NONSTANDARD"
TX_PUBKEY == "TX_PUBKEY"
TX_PUBKEYHASH == "TX_PUBKEYHASH"
TX_SCRIPTHASH == "TX_SCRIPTHASH"
TX_MULTISIG == "TX_MULTISIG"
TX_NULL_DATA == "TX_NULL_DATA"
TX_WITNESS_V0_KEYHASH == "TX_WITNESS_V0_KEYHASH"
TX_WITNESS_V0_SCRIPTHASH == "TX_WITNESS_V0_SCRIPTHASH"

---------------------------------------------------------------------------
(* Scripts and the script collaborators.                                   *)

\* A CScript: template, byte length, multisig m-of-n, accurate sigop count,
\* witness version and program length (wlen = 0: not a witness program),
\* and whether its first opcode is OP_RETURN.
Script(type, size, m, n, sigops, wver, wlen, opreturn) ==
    [type |-> type, size |-> size, m |-> m, n |-> n, sigops |-> sigops,
     wver |-> wver, wlen |-> wlen, opreturn |-> opreturn]

\* Solver(scriptPubKey, typeRet, vSolutionsRet): a definite type, and
\* whether the script matched a template.
Solver(script) ==
    [ret |-> script.type # TX_NONSTANDARD, typeRet |-> script.type]

IsPayToScriptHash(script) == script.type = TX_SCRIPTHASH

IsWitnessProgram(script) ==
    [ret |-> script.wlen > 0, version |-> script.wver, program_size |-> script.wlen]

IsUnspendable(script) == script.opreturn

GetSigOpCount(script) == script.sigops

\* A scriptSig: byte length, IsPushOnly(), and what EvalScript makes of it
\* (success, and the resulting stack whose items are read back as scripts).
ScriptSig(size, pushOnly, evalOk, stack) ==
    [size |-> size, pushOnly |-> pushOnly, evalOk |-> evalOk, stack |-> stack]

IsPushOnly(scriptSig) == scriptSig.pushOnly

EvalScript(scriptSig) ==
    [ret |-> scriptSig.evalOk,
     stack |-> IF scriptSig.evalOk THEN scriptSig.stack ELSE <<>>]

\* WriteCompactSize: the length prefix of a serialized byte vector.
GetSizeOfCompactSize(n) ==
    IF n < 253 THEN 1 ELSE IF n <= 65535 THEN 3 ELSE 5

\* GetSerializeSize(txout): 8 bytes of nValue, then the prefixed script.
GetSerializeSize(out) ==
    8 + GetSizeOfCompactSize(out.scriptPubKey.size) + out.scriptPubKey.size

\* CFeeRate::GetFee: satoshis-per-kilobyte times bytes.
GetFee(nSatoshisPerK, nSize) == (nSatoshisPerK * nSize) \div 1000

GetTransactionWeight(t) == t.weight

\* CTransaction::IsCoinBase: one input, whose prevout is null.
NullOutPoint == "null"
IsCoinBase(t) == Len(t.vin) = 1 /\ t.vin[1].prevout = NullOutPoint

---------------------------------------------------------------------------
(* Dust.                                                                   *)

\* The input size estimate without the witness discount.
GetDustThreshold_NoDiscount(out, feeRate) ==
    IF IsUnspendable(out.scriptPubKey) THEN 0
    ELSE GetFee(feeRate, GetSerializeSize(out) + (32 + 4 + 1 + 107 + 4))

GetDustThreshold(out, feeRate) ==
    IF IsUnspendable(out.scriptPubKey) THEN 0
    ELSE LET nSize0 == GetSerializeSize(out)
             nSize == IF IsWitnessProgram(out.scriptPubKey).ret
                      THEN nSize0 + (32 + 4 + 1 + (107 \div WITNESS_SCALE_FACTOR) + 4)
                      ELSE nSize0 + (32 + 4 + 1 + 107 + 4)
         IN GetFee(feeRate, nSize)

\* An output worth exactly the threshold counted as dust.
IsDust_AtThreshold(out, feeRate) == out.nValue <= GetDustThreshold(out, feeRate)

IsDust(out, feeRate) == out.nValue < GetDustThreshold(out, feeRate)

---------------------------------------------------------------------------
(* Output classifier.                                                      *)

IsStandard(scriptPubKey, fWitnessEnabled) ==
    LET s == Solver(scriptPubKey)
        whichType == s.typeRet
    IN IF ~s.ret THEN [ret |-> FALSE, whichType |-> whichType]
       ELSE IF whichType = TX_MULTISIG
       THEN IF scriptPubKey.n < 1 \/ scriptPubKey.n > 3
            THEN [ret |-> FALSE, whichType |-> whichType]
            ELSE IF scriptPubKey.m < 1 \/ scriptPubKey.m > scriptPubKey.n
            THEN [ret |-> FALSE, whichType |-> whichType]
            ELSE [ret |-> whichType # TX_NONSTANDARD, whichType |-> whichType]
       ELSE IF whichType = TX_NULL_DATA
               /\ (~fAcceptDatacarrier \/ scriptPubKey.size > nMaxDatacarrierBytes)
       THEN [ret |-> FALSE, whichType |-> whichType]
       ELSE IF ~fWitnessEnabled
               /\ whichType \in {TX_WITNESS_V0_KEYHASH, TX_WITNESS_V0_SCRIPTHASH}
       THEN [ret |-> FALSE, whichType |-> whichType]
       ELSE [ret |-> whichType # TX_NONSTANDARD, whichType |-> whichType]

---------------------------------------------------------------------------
(* The rejection protocol. Every step of a check yields a record           *)
(* [rejected, out_reason]: whether the check returns false there, and the  *)
(* caller's reason string after the step.                                  *)

Continue(reason_out) == [rejected |-> FALSE, out_reason |-> reason_out]
Reject(reason_out) == [rejected |-> TRUE, out_reason |-> reason_out]

\* The reason written before the ignore set is looked up.
MaybeReject_WritesFirst(reason_out, reason, prefix, ignore) ==
    IF (prefix \o reason) \in ignore
    THEN [rejected |-> FALSE, out_reason |-> prefix \o reason]
    ELSE [rejected |-> TRUE, out_reason |-> prefix \o reason]

\* MaybeReject_ and the MaybeReject macro around it.
MaybeReject_(reason_out, reason, prefix, ignore) ==
    IF (prefix \o reason) \in ignore
    THEN Continue(reason_out)
    ELSE Reject(prefix \o reason)

---------------------------------------------------------------------------
(* IsStandardTx.                                                           *)

VersionCheck(t, reason_out, prefix, ignore) ==
    IF t.nVersion > MAX_STANDARD_VERSION \/ t.nVersion < 1
    THEN MaybeReject_(reason_out, "version", prefix, ignore)
    ELSE Continue(reason_out)

TxSizeCheck(t, reason_out, ignore) ==
    IF "tx-size" \notin ignore
    THEN IF GetTransactionWeight(t) >= MAX_STANDARD_TX_WEIGHT
         THEN Reject("tx-size")
         ELSE Continue(reason_out)
    ELSE Continue(reason_out)

\* The push-only test made before the size test.
TxInCheck_PushOnlyFirst(txin, reason_out, fCheckPushOnly, prefix, ignore) ==
    IF fCheckPushOnly /\ ~IsPushOnly(txin.scriptSig)
    THEN [rejected |-> TRUE, out_reason |-> "scriptsig-not-pushonly"]
    ELSE IF txin.scriptSig.size > MAX_SCRIPTSIG_SIZE
    THEN MaybeReject_(reason_out, "scriptsig-size", prefix, ignore)
    ELSE [rejected |-> FALSE, out_reason |-> reason_out]

\* The body of the loop over tx.vin, for one input.
TxInCheck(txin, reason_out, fCheckPushOnly, prefix, ignore) ==
    LET r == IF txin.scriptSig.size > MAX_SCRIPTSIG_SIZE
             THEN MaybeReject_(reason_out, "scriptsig-size", prefix, ignore)
             ELSE Continue(reason_out)
    IN IF r.rejected THEN r
       ELSE IF fCheckPushOnly /\ ~IsPushOnly(txin.scriptSig)
       THEN Reject("scriptsig-not-pushonly")
       ELSE r

RECURSIVE TxInLoop(_, _, _, _, _, _)
TxInLoop(vin, i, reason_out, fCheckPushOnly, prefix, ignore) ==
    IF i > Len(vin) THEN Continue(reason_out)
    ELSE LET r == TxInCheck(vin[i], reason_out, fCheckPushOnly, prefix, ignore)
         IN IF r.rejected THEN r
            ELSE TxInLoop(vin, i + 1, r.out_reason, fCheckPushOnly, prefix, ignore)

\* The input loop guarded by the size reason alone.
TxInGuard_SizeOnly(ignore, fCheckPushOnly) == "scriptsig-size" \notin ignore

TxInGuard(ignore, fCheckPushOnly) ==
    ("scriptsig-size" \notin ignore) \/ fCheckPushOnly

\* The body of the loop over tx.vout, for one output: the step, and whether
\* the output counts as a data-carrier output.
TxOutCheck(out, reason_out, fWitnessEnabled, prefix, ignore) ==
    LET std == IsStandard(out.scriptPubKey, fWitnessEnabled)
        whichType == std.whichType
        r1 == IF ~std.ret
              THEN MaybeReject_(reason_out, "scriptpubkey", prefix, ignore)
              ELSE Continue(reason_out)
        r2 == IF whichType = TX_MULTISIG /\ ~fIsBareMultisigStd
              THEN MaybeReject_(r1.out_reason, "bare-multisig", prefix, ignore)
              ELSE Continue(r1.out_reason)
        r3 == IF IsDust(out, dustRelayFee)
              THEN MaybeReject_(r2.out_reason, "dust", prefix, ignore)
              ELSE Continue(r2.out_reason)
        isData == whichType = TX_NULL_DATA
    IN IF r1.rejected THEN [step |-> r1, isData |-> FALSE]
       ELSE IF isData THEN [step |-> r1, isData |-> TRUE]
       ELSE IF r2.rejected THEN [step |-> r2, isData |-> FALSE]
       ELSE [step |-> r3, isData |-> FALSE]

RECURSIVE TxOutLoop(_, _, _, _, _, _, _)
TxOutLoop(vout, i, nDataOut, reason_out, fWitnessEnabled, prefix, ignore) ==
    IF i > Len(vout)
    THEN IF nDataOut > 1
         THEN MaybeReject_(reason_out, "multi-op-return", prefix, ignore)
         ELSE Continue(reason_out)
    ELSE LET c == TxOutCheck(vout[i], reason_out, fWitnessEnabled, prefix, ignore)
         IN IF c.step.rejected THEN c.step
            ELSE TxOutLoop(vout, i + 1, IF c.isData THEN nDataOut + 1 ELSE nDataOut,
                           c.step.out_reason, fWitnessEnabled, prefix, ignore)

\* The output loop skipped as soon as one of its reasons is ignored.
TxOutGuard_AnyIgnored(ignore) ==
    ~("scriptpubkey" \in ignore \/ "bare-multisig" \in ignore
      \/ "dust" \in ignore \/ "multi-op-return" \in ignore)

TxOutGuard(ignore) ==
    ~("scriptpubkey" \in ignore /\ "bare-multisig" \in ignore
      /\ "dust" \in ignore /\ "multi-op-return" \in ignore)

IsStandardTx(t, reason_out, fWitnessEnabled, ignore) ==
    LET prefix == ""
        r1 == VersionCheck(t, reason_out, prefix, ignore)
        r2 == TxSizeCheck(t, r1.out_reason, ignore)
        fCheckPushOnly == "scriptsig-not-pushonly" \notin ignore
        r3 == IF TxInGuard(ignore, fCheckPushOnly)
              THEN TxInLoop(t.vin, 1, r2.out_reason, fCheckPushOnly, prefix, ignore)
              ELSE Continue(r2.out_reason)
        r4 == IF TxOutGuard(ignore)
              THEN TxOutLoop(t.vout, 1, 0, r3.out_reason, fWitnessEnabled, prefix, ignore)
              ELSE Continue(r3.out_reason)
    IN IF r1.rejected THEN [ret |-> FALSE, out_reason |-> r1.out_reason]
       ELSE IF r2.rejected THEN [ret |-> FALSE, out_reason |-> r2.out_reason]
       ELSE IF r3.rejected THEN [ret |-> FALSE, out_reason |-> r3.out_reason]
       ELSE IF r4.rejected THEN [ret |-> FALSE, out_reason |-> r4.out_reason]
       ELSE [ret |-> TRUE, out_reason |-> r4.out_reason]

---------------------------------------------------------------------------
(* AreInputsStandard.                                                      *)

\* mapInputs.AccessCoin(prevout).out
AccessCoin(prevout) == mapInputs[prevout]

Back(stack) == stack[Len(stack)]

\* The redeem script inspected whether or not the scriptSig is push-only.
InputCheck_NoSkip(txin, reason_out, prefix, ignore) ==
    LET prevScript == AccessCoin(txin.prevout).scriptPubKey
        s == Solver(prevScript)
        r1 == IF ~s.ret
              THEN MaybeReject_(reason_out, "script-unknown", prefix, ignore)
              ELSE [rejected |-> FALSE, out_reason |-> reason_out]
        e == EvalScript(txin.scriptSig)
    IN IF r1.rejected THEN r1
       ELSE IF s.typeRet = TX_SCRIPTHASH
       THEN IF ~e.ret
            THEN [rejected |-> TRUE, out_reason |-> prefix \o "scriptsig-failure"]
            ELSE IF e.stack = <<>>
            THEN [rejected |-> TRUE, out_reason |-> prefix \o "scriptcheck-missing"]
            ELSE IF GetSigOpCount(Back(e.stack)) > MAX_P2SH_SIGOPS
            THEN MaybeReject_(r1.out_reason, "scriptcheck-sigops", prefix, ignore)
            ELSE r1
       ELSE r1

\* The body of the loop over tx.vin, for one input.
InputCheck(txin, reason_out, prefix, ignore) ==
    LET prevScript == AccessCoin(txin.prevout).scriptPubKey
        s == Solver(prevScript)
        whichType == s.typeRet
        r1 == IF ~s.ret
              THEN MaybeReject_(reason_out, "script-unknown", prefix, ignore)
              ELSE Continue(reason_out)
        e == EvalScript(txin.scriptSig)
    IN IF r1.rejected THEN r1
       ELSE IF whichType = TX_SCRIPTHASH
       THEN IF ~IsPushOnly(txin.scriptSig) THEN r1
            ELSE IF ~e.ret THEN Reject(prefix \o "scriptsig-failure")
            ELSE IF e.stack = <<>> THEN Reject(prefix \o "scriptcheck-missing")
            ELSE IF GetSigOpCount(Back(e.stack)) > MAX_P2SH_SIGOPS
            THEN MaybeReject_(r1.out_reason, "scriptcheck-sigops", prefix, ignore)
            ELSE r1
       ELSE r1

RECURSIVE InputLoop(_, _, _, _, _)
InputLoop(vin, i, reason_out, prefix, ignore) ==
    IF i > Len(vin) THEN Continue(reason_out)
    ELSE LET r == InputCheck(vin[i], reason_out, prefix, ignore)
         IN IF r.rejected THEN r
            ELSE InputLoop(vin, i + 1, r.out_reason, prefix, ignore)

AreInputsStandard(t, prefix, reason_out, ignore) ==
    IF IsCoinBase(t) THEN [ret |-> TRUE, out_reason |-> reason_out]
    ELSE LET r == InputLoop(t.vin, 1, reason_out, prefix, ignore)
         IN [ret |-> ~r.rejected, out_reason |-> r.out_reason]

---------------------------------------------------------------------------
(* IsWitnessStandard. A witness stack is the sequence of its items' sizes. *)

\* The body of the loop over the stack items, for item j.
StackItemCheck(stack, j, reason_out, prefix, ignore) ==
    IF stack[j] > MAX_STANDARD_P2WSH_STACK_ITEM_SIZE
    THEN MaybeReject_(reason_out, "stackitem-size", prefix, ignore)
    ELSE Continue(reason_out)

\* The items j..sizeWitnessStack in order, stopping at the first rejection.
\* The range is run as its first half and then its second half, which keeps
\* the evaluation shallow for stacks of a hundred items.
RECURSIVE StackItemLoop(_, _, _, _, _, _)
StackItemLoop(stack, j, sizeWitnessStack, reason_out, prefix, ignore) ==
    IF j > sizeWitnessStack THEN Continue(reason_out)
    ELSE IF j = sizeWitnessStack
    THEN StackItemCheck(stack, j, reason_out, prefix, ignore)
    ELSE LET mid == (j + sizeWitnessStack) \div 2
             r == StackItemLoop(stack, j, mid, reason_out, prefix, ignore)
         IN IF r.rejected THEN r
            ELSE StackItemLoop(stack, mid + 1, sizeWitnessStack, r.out_reason,
                               prefix, ignore)

\* A witness script of exactly the maximum size turned away.
P2WSHCheck_ScriptAtLimit(stack, reason_out, prefix, ignore) ==
    LET r1 == IF Back(stack) >= MAX_STANDARD_P2WSH_SCRIPT_SIZE
              THEN MaybeReject_(reason_out, "script-size", prefix, ignore)
              ELSE [rejected |-> FALSE, out_reason |-> reason_out]
        sizeWitnessStack == Len(stack) - 1
        r2 == IF sizeWitnessStack > MAX_STANDARD_P2WSH_STACK_ITEMS
              THEN MaybeReject_(r1.out_reason, "stackitem-count", prefix, ignore)
              ELSE [rejected |-> FALSE, out_reason |-> r1.out_reason]
    IN IF r1.rejected THEN r1
       ELSE IF r2.rejected THEN r2
       ELSE StackItemLoop(stack, 1, sizeWitnessStack, r2.out_reason, prefix, ignore)

\* The P2WSH limits on one witness stack.
P2WSHCheck(stack, reason_out, prefix, ignore) ==
    LET r1 == IF Back(stack) > MAX_STANDARD_P2WSH_SCRIPT_SIZE
              THEN MaybeReject_(reason_out, "script-size", prefix, ignore)
              ELSE Continue(reason_out)
        sizeWitnessStack == Len(stack) - 1
        r2 == IF sizeWitnessStack > MAX_STANDARD_P2WSH_STACK_ITEMS
              THEN MaybeReject_(r1.out_reason, "stackitem-count", prefix, ignore)
              ELSE Continue(r1.out_reason)
    IN IF r1.rejected THEN r1
       ELSE IF r2.rejected THEN r2
       ELSE StackItemLoop(stack, 1, sizeWitnessStack, r2.out_reason, prefix, ignore)

\* The effective previous script of an input: the coin's script, or the
\* redeem script behind one pay-to-script-hash level.
EffectiveScript(txin, reason_out, prefix) ==
    LET prevScript == AccessCoin(txin.prevout).scriptPubKey
        e == EvalScript(txin.scriptSig)
    IN IF IsPayToScriptHash(prevScript)
       THEN IF ~e.ret
            THEN [step |-> Reject(prefix \o "scriptsig-failure"), script |-> prevScript]
            ELSE IF e.stack = <<>>
            THEN [step |-> Reject(prefix \o "scriptcheck-missing"), script |-> prevScript]
            ELSE [step |-> Continue(reason_out), script |-> Back(e.stack)]
       ELSE [step |-> Continue(reason_out), script |-> prevScript]

\* nonwitness-input sent through the ignore set like a policy reason.
NonWitnessCheck_Ignorable(w, reason_out, prefix, ignore) ==
    IF ~w.ret
    THEN MaybeReject_(reason_out, "nonwitness-input", prefix, ignore)
    ELSE [rejected |-> FALSE, out_reason |-> reason_out]

\* A witness for a script that is no witness program.
NonWitnessCheck(w, reason_out, prefix, ignore) ==
    IF ~w.ret THEN Reject(prefix \o "nonwitness-input") ELSE Continue(reason_out)

\* The body of the loop over tx.vin, for one input.
WitnessCheck(txin, reason_out, prefix, ignore) ==
    IF txin.scriptWitness = <<>> THEN Continue(reason_out)
    ELSE LET eff == EffectiveScript(txin, reason_out, prefix)
             w == IsWitnessProgram(eff.script)
             r == NonWitnessCheck(w, reason_out, prefix, ignore)
         IN IF eff.step.rejected THEN eff.step
            ELSE IF r.rejected THEN r
            ELSE IF w.version = 0 /\ w.program_size = 32
            THEN P2WSHCheck(txin.scriptWitness, reason_out, prefix, ignore)
            ELSE Continue(reason_out)

RECURSIVE WitnessLoop(_, _, _, _, _)
WitnessLoop(vin, i, reason_out, prefix, ignore) ==
    IF i > Len(vin) THEN Continue(reason_out)
    ELSE LET r == WitnessCheck(vin[i], reason_out, prefix, ignore)
         IN IF r.rejected THEN r
            ELSE WitnessLoop(vin, i + 1, r.out_reason, prefix, ignore)

IsWitnessStandard(t, prefix, reason_out, ignore) ==
    IF IsCoinBase(t) THEN [ret |-> TRUE, out_reason |-> reason_out]
    ELSE LET r == WitnessLoop(t.vin, 1, reason_out, prefix, ignore)
         IN [ret |-> ~r.rejected, out_reason |-> r.out_reason]

---------------------------------------------------------------------------
(* Virtual size.                                                           *)

Max(a, b) == IF a >= b THEN a ELSE b

\* The division made without rounding up.
GetVirtualTransactionSize_RoundsDown(weight, sigOpCost) ==
    Max(weight, sigOpCost * nBytesPerSigOp) \div WITNESS_SCALE_FACTOR

GetVirtualTransactionSize(weight, sigOpCost) ==
    (Max(weight, sigOpCost * nBytesPerSigOp) + WITNESS_SCALE_FACTOR - 1)
        \div WITNESS_SCALE_FACTOR

---------------------------------------------------------------------------
(* The inputs of the checks.                                               *)

MaxTxItems == 2     \* inputs plus outputs of a transaction
MaxValue == 700     \* output values 0..MaxValue (satoshis)
MaxWeight == 40     \* weights 0..MaxWeight, next to the round ones
MaxSigOpCost == 10  \* sigop costs 0..MaxSigOpCost, next to the round ones

EmptyScript == Script(TX_NONSTANDARD, 0, 0, 0, 0, 0, 0, FALSE)
P2PKH == Script(TX_PUBKEYHASH, 25, 0, 0, 1, 0, 0, FALSE)
P2PK == Script(TX_PUBKEY, 35, 0, 0, 1, 0, 0, FALSE)
P2SH == Script(TX_SCRIPTHASH, 23, 0, 0, 0, 0, 0, FALSE)
Multisig(m, n) == Script(TX_MULTISIG, 3 + 34 * n, m, n, n, 0, 0, FALSE)
NullData(size) == Script(TX_NULL_DATA, size, 0, 0, 0, 0, 0, TRUE)
NonStandard == Script(TX_NONSTANDARD, 10, 0, 0, 0, 0, 0, FALSE)
NonStandardSigOps(k) == Script(TX_NONSTANDARD, 2 * k + 1, 0, 0, k, 0, 0, FALSE)
P2WPKH == Script(TX_WITNESS_V0_KEYHASH, 22, 0, 0, 0, 0, 20, FALSE)
P2WSH == Script(TX_WITNESS_V0_SCRIPTHASH, 34, 0, 0, 0, 0, 32, FALSE)
WitnessV1 == Script(TX_NONSTANDARD, 34, 0, 0, 0, 1, 32, FALSE)

TxOut(nValue, scriptPubKey) == [nValue |-> nValue, scriptPubKey |-> scriptPubKey]
TxIn(prevout, scriptSig, scriptWitness) ==
    [prevout |-> prevout, scriptSig |-> scriptSig, scriptWitness |-> scriptWitness]

\* The coins view: one coin per previous-output template. A null or
\* unknown outpoint yields the empty coin.
OutPoints == {"null", "p2pkh", "p2sh", "p2wpkh", "p2wsh", "wv1", "nonstd"}
CoinsView ==
    [o \in OutPoints |->
        CASE o = "p2pkh" -> TxOut(1000, P2PKH)
          [] o = "p2sh" -> TxOut(1000, P2SH)
          [] o = "p2wpkh" -> TxOut(1000, P2WPKH)
          [] o = "p2wsh" -> TxOut(1000, P2WSH)
          [] o = "wv1" -> TxOut(1000, WitnessV1)
          [] o = "nonstd" -> TxOut(1000, NonStandard)
          [] OTHER -> TxOut(0, EmptyScript)]

\* scriptSigs: a plain signature push, and what a spender of P2SH writes.
Pushes(size, stack) == ScriptSig(size, TRUE, TRUE, stack)
SigData == Script(TX_NONSTANDARD, 72, 0, 0, 0, 0, 0, FALSE)
EmptySig == ScriptSig(0, TRUE, TRUE, <<>>)

\* Outputs for IsStandardTx: standard, dust, bare multisig, data carrier,
\* non-standard ones.
StdTxOuts ==
    { TxOut(546, P2PKH), TxOut(545, P2PKH), TxOut(10000, Multisig(1, 2)),
      TxOut(0, NullData(20)), TxOut(10000, NonStandard), TxOut(0, NonStandard) }

\* Inputs for IsStandardTx: scriptSig at or over the size limit, push-only or not.
StdTxIns ==
    { TxIn("p2pkh", ScriptSig(size, pushOnly, pushOnly, <<SigData>>), <<>>) :
        size \in {MAX_SCRIPTSIG_SIZE, MAX_SCRIPTSIG_SIZE + 1}, pushOnly \in BOOLEAN }

Ones(n) == [k \in 1..n |-> 1]

\* Inputs for AreInputsStandard: no witness.
InputTxIns ==
    { TxIn("null", EmptySig, <<>>),
      TxIn("p2pkh", Pushes(107, <<SigData, SigData>>), <<>>),
      TxIn("nonstd", Pushes(73, <<SigData>>), <<>>),
      TxIn("p2sh", ScriptSig(2, FALSE, FALSE, <<>>), <<>>),
      TxIn("p2sh", ScriptSig(600, TRUE, FALSE, <<>>), <<>>),
      TxIn("p2sh", EmptySig, <<>>),
      TxIn("p2sh", Pushes(600, <<SigData, Multisig(15, 15)>>), <<>>),
      TxIn("p2sh", Pushes(40, <<NonStandardSigOps(16)>>), <<>>),
      TxIn("p2sh", ScriptSig(41, FALSE, TRUE, <<NonStandardSigOps(16)>>), <<>>) }

\* Inputs for IsWitnessStandard: witness stacks at the three P2WSH limits,
\* over the item count, over the item and script sizes.
AtLimits == Ones(MAX_STANDARD_P2WSH_STACK_ITEMS - 1)
                \o <<MAX_STANDARD_P2WSH_STACK_ITEM_SIZE, MAX_STANDARD_P2WSH_SCRIPT_SIZE>>
CountOver == Ones(MAX_STANDARD_P2WSH_STACK_ITEMS + 1) \o <<10>>
ItemAndScriptOver ==
    <<MAX_STANDARD_P2WSH_STACK_ITEM_SIZE + 1, MAX_STANDARD_P2WSH_SCRIPT_SIZE + 1>>
WitnessTxIns ==
    { TxIn("null", EmptySig, <<32>>),
      TxIn("p2pkh", Pushes(107, <<SigData, SigData>>), <<72>>),
      TxIn("p2wsh", EmptySig, AtLimits),
      TxIn("p2wsh", EmptySig, CountOver),
      TxIn("p2wsh", EmptySig, ItemAndScriptOver),
      TxIn("wv1", EmptySig, ItemAndScriptOver),
      TxIn("p2wpkh", EmptySig, ItemAndScriptOver),
      TxIn("p2sh", Pushes(35, <<P2WSH>>), <<72, 100>>),
      TxIn("p2sh", ScriptSig(600, TRUE, FALSE, <<>>), <<72>>),
      TxIn("p2sh", EmptySig, <<72>>),
      TxIn("p2sh", Pushes(26, <<P2PKH>>), <<72>>),
      TxIn("p2sh", ScriptSig(600, TRUE, FALSE, <<>>), <<>>) }

RECURSIVE SeqsUpTo(_, _)
SeqsUpTo(S, n) ==
    IF n = 0 THEN {<<>>}
    ELSE LET shorter == SeqsUpTo(S, n - 1)
         IN shorter \cup {Append(q, x) : q \in {p \in shorter : Len(p) = n - 1}, x \in S}

Tx(nVersion, weight, vin, vout) ==
    [nVersion |-> nVersion, weight |-> weight, vin |-> vin, vout |-> vout]

---------------------------------------------------------------------------
(* Rejection reasons and ignore sets.                                      *)

\* The reasons of IsStandardTx, in the order of the code's checks.
StdReasons ==
    <<"version", "tx-size", "scriptsig-size", "scriptsig-not-pushonly",
      "scriptpubkey", "bare-multisig", "dust", "multi-op-return">>

\* The reasons of AreInputsStandard and IsWitnessStandard.
InputReasons ==
    {"script-unknown", "scriptsig-failure", "scriptcheck-missing", "scriptcheck-sigops"}
WitnessReasons ==
    {"scriptsig-failure", "scriptcheck-missing", "nonwitness-input",
     "script-size", "stackitem-count", "stackitem-size"}

Range(f) == {f[i] : i \in DOMAIN f}

Prefixes == {"", "bad-txns-"}

\* Ignore sets: nothing, one reason, all reasons but one, every reason.
IgnoreSets(U) == {{}} \cup {{r} : r \in U} \cup {U \ {r} : r \in U} \cup {U}

---------------------------------------------------------------------------
(* The state machine: Init draws the arguments of one call, the actions    *)
(* make the call.                                                          *)

NoRet == "none"

InitGlobals ==
    /\ mapInputs = CoinsView
    /\ dustRelayFee = DUST_RELAY_TX_FEE
    /\ nBytesPerSigOp = DEFAULT_BYTES_PER_SIGOP

InitCall(at) ==
    /\ pc = at
    /\ ret = NoRet
    /\ out_reason = ""

\* The relay policy switches: bare multisig, data carriers and witness
\* outputs all relayed, or none of them.
Policy(permissive) ==
    /\ fIsBareMultisigStd = permissive
    /\ fAcceptDatacarrier = permissive
    /\ witnessEnabled = permissive

NoDustArgs ==
    /\ txout = TxOut(0, EmptyScript)
    /\ dustRelayFeeIn = 0

NoSizeArgs ==
    /\ nWeight = 0
    /\ nSigOpCost = 0

\* Version and weight: both fine, either one off, both off.
Headers ==
    { <<MAX_STANDARD_VERSION, MAX_STANDARD_TX_WEIGHT - 1>>,
      <<MAX_STANDARD_VERSION + 1, MAX_STANDARD_TX_WEIGHT - 1>>,
      <<MAX_STANDARD_VERSION, MAX_STANDARD_TX_WEIGHT>>,
      <<0, MAX_STANDARD_TX_WEIGHT>> }

\* A transaction whose inputs and outputs exercise IsStandardTx.
InitStdTx ==
    /\ \E h \in Headers,
          vin \in SeqsUpTo(StdTxIns, MaxTxItems),
          vout \in SeqsUpTo(StdTxOuts, MaxTxItems) :
            /\ Len(vin) + Len(vout) <= MaxTxItems
            /\ tx = Tx(h[1], h[2], vin, vout)
    /\ reason_prefix = ""
    /\ ignore_rejects \in IgnoreSets(Range(StdReasons))
    /\ \E permissive \in BOOLEAN : Policy(permissive)

SpendTx(vin) ==
    Tx(MAX_STANDARD_VERSION, MAX_STANDARD_TX_WEIGHT - 1, vin, <<TxOut(546, P2PKH)>>)

\* A transaction whose inputs exercise AreInputsStandard.
InitInputsTx ==
    /\ \E vin \in SeqsUpTo(InputTxIns, MaxTxItems) : tx = SpendTx(vin)
    /\ reason_prefix \in Prefixes
    /\ ignore_rejects \in SUBSET {reason_prefix \o r : r \in InputReasons}

\* A transaction whose inputs exercise IsWitnessStandard.
InitWitnessTx ==
    /\ \E vin \in SeqsUpTo(WitnessTxIns, MaxTxItems) : tx = SpendTx(vin)
    /\ reason_prefix \in Prefixes
    /\ ignore_rejects \in IgnoreSets({reason_prefix \o r : r \in WitnessReasons})

\* Scripts for the dust threshold: every template, spendable or not, and
\* a script long enough for a three-byte length prefix.
DustScripts ==
    { P2PKH, P2PK, P2SH, Multisig(1, 2), NullData(20), P2WPKH, P2WSH, WitnessV1,
      NonStandard, Script(TX_NONSTANDARD, 10, 0, 0, 0, 0, 0, TRUE),
      Script(TX_NONSTANDARD, 300, 0, 0, 0, 0, 0, FALSE) }

FeeRates == {0, 1000, DUST_RELAY_TX_FEE}

BytesPerSigOps == {1, 2, DEFAULT_BYTES_PER_SIGOP}

NoTx ==
    /\ tx = SpendTx(<<>>)
    /\ reason_prefix = ""
    /\ ignore_rejects = {}
    /\ Policy(TRUE)

Init ==
    /\ InitGlobals
    /\ NoDustArgs
    /\ NoSizeArgs
    /\ \/ InitStdTx /\ InitCall("start")
       \/ InitInputsTx /\ Policy(TRUE) /\ InitCall("coins")
       \/ InitWitnessTx /\ Policy(TRUE) /\ InitCall("coins")

Inputs == <<tx, mapInputs, witnessEnabled, reason_prefix, ignore_rejects,
            fIsBareMultisigStd, fAcceptDatacarrier, dustRelayFee, nBytesPerSigOp,
            txout, dustRelayFeeIn, nWeight, nSigOpCost>>

CallIsStandardTx ==
    /\ pc = "start"
    /\ LET r == IsStandardTx(tx, out_reason, witnessEnabled, ignore_rejects)
       IN /\ ret' = r.ret
          /\ out_reason' = r.out_reason
    /\ pc' = "IsStandardTx"
    /\ UNCHANGED Inputs

CallAreInputsStandard ==
    /\ pc = "coins"
    /\ LET r == AreInputsStandard(tx, reason_prefix, out_reason, ignore_rejects)
       IN /\ ret' = r.ret
          /\ out_reason' = r.out_reason
    /\ pc' = "AreInputsStandard"
    /\ UNCHANGED Inputs

CallIsWitnessStandard ==
    /\ pc = "coins"
    /\ LET r == IsWitnessStandard(tx, reason_prefix, out_reason, ignore_rejects)
       IN /\ ret' = r.ret
          /\ out_reason' = r.out_reason
    /\ pc' = "IsWitnessStandard"
    /\ UNCHANGED Inputs

Next ==
    \/ CallIsStandardTx
    \/ CallAreInputsStandard
    \/ CallIsWitnessStandard

Spec == Init /\ [][Next]_vars

---------------------------------------------------------------------------
(* The rules of IsStandardTx, as the transaction violates them or not.     *)

Indices(q) == 1..Len(q)

ViolatesStd(t, rule) ==
    CASE rule = "version" ->
            ~(1 <= t.nVersion /\ t.nVersion <= MAX_STANDARD_VERSION)
      [] rule = "tx-size" ->
            ~(t.weight < MAX_STANDARD_TX_WEIGHT)
      [] rule = "scriptsig-size" ->
            \E i \in Indices(t.vin) : t.vin[i].scriptSig.size > 1650
      [] rule = "scriptsig-not-pushonly" ->
            \E i \in Indices(t.vin) : ~t.vin[i].scriptSig.pushOnly
      [] rule = "scriptpubkey" ->
            \E i \in Indices(t.vout) :
                ~IsStandard(t.vout[i].scriptPubKey, witnessEnabled).ret
      [] rule = "bare-multisig" ->
            \E i \in Indices(t.vout) :
                t.vout[i].scriptPubKey.type = TX_MULTISIG /\ ~fIsBareMultisigStd
      [] rule = "dust" ->
            \E i \in Indices(t.vout) : IsDust(t.vout[i], dustRelayFee)
      [] rule = "multi-op-return" ->
            Cardinality({i \in Indices(t.vout) :
                            t.vout[i].scriptPubKey.type = TX_NULL_DATA}) > 1

StdViolations(t) == {rule \in Range(StdReasons) : ViolatesStd(t, rule)}

\* C1: IsStandardTx passes exactly when every rule the transaction violates
\* is in the ignore set, and a rejection names a violated rule that is not
\* ignored.
C1_PassIffViolationsIgnored ==
    pc = "IsStandardTx" =>
        /\ (ret = TRUE) <=> (StdViolations(tx) \subseteq ignore_rejects)
        /\ (ret = FALSE) => out_reason \in StdViolations(tx) \ ignore_rejects

\* Two data-carrier outputs and nothing else wrong, multi-op-return ignored:
\* the transaction passes.
C1_Witness ==
    /\ pc = "IsStandardTx"
    /\ StdViolations(tx) = {"multi-op-return"}
    /\ ignore_rejects = {"multi-op-return"}
    /\ ret = TRUE

\* The violations in the order in which the code meets them: version,
\* weight, then input by input (size, push-only), then output by output
\* (script, bare multisig, dust), then the data-carrier count.
If(cond, reason) == IF cond THEN <<reason>> ELSE <<>>

RECURSIVE Concat(_, _)
Concat(f, n) == IF n = 0 THEN <<>> ELSE Concat(f, n - 1) \o f[n]

ViolationsInOrder(t) ==
    If(ViolatesStd(t, "version"), "version")
    \o If(ViolatesStd(t, "tx-size"), "tx-size")
    \o Concat([i \in Indices(t.vin) |->
                 If(t.vin[i].scriptSig.size > 1650, "scriptsig-size")
                 \o If(~t.vin[i].scriptSig.pushOnly, "scriptsig-not-pushonly")],
              Len(t.vin))
    \o Concat([i \in Indices(t.vout) |->
                 If(~IsStandard(t.vout[i].scriptPubKey, witnessEnabled).ret, "scriptpubkey")
                 \o If(t.vout[i].scriptPubKey.type = TX_MULTISIG /\ ~fIsBareMultisigStd,
                       "bare-multisig")
                 \o If(IsDust(t.vout[i], dustRelayFee), "dust")],
              Len(t.vout))
    \o If(ViolatesStd(t, "multi-op-return"), "multi-op-return")

\* The first element of q that is not in S ("" when there is none).
FirstNotIn(q, S) ==
    LET live == {i \in Indices(q) : q[i] \notin S}
    IN IF live = {} THEN ""
       ELSE q[CHOOSE i \in live : \A j \in live : i <= j]

\* C2 (as amended): a rejection names the first non-ignored violation in
\* the order of evaluation, in which the two scriptSig rules alternate input
\* by input and the three output rules alternate output by output.
C2_FirstInEvaluationOrder ==
    (pc = "IsStandardTx" /\ ret = FALSE) =>
        out_reason = FirstNotIn(ViolationsInOrder(tx), ignore_rejects)

\* C2 (as claimed): a rejection names the earliest rule of the fixed list
\* that the transaction violates and that is not ignored.
C2_FirstInRuleOrder ==
    (pc = "IsStandardTx" /\ ret = FALSE) =>
        out_reason =
            FirstNotIn(SelectSeq(StdReasons, LAMBDA r : ViolatesStd(tx, r)),
                       ignore_rejects)

\* A first input that is not push-only, a later one that is too large,
\* nothing ignored: rejected for the first input.
C2_Witness ==
    /\ pc = "IsStandardTx"
    /\ ret = FALSE
    /\ ignore_rejects = {}
    /\ StdViolations(tx) = {"scriptsig-size", "scriptsig-not-pushonly"}
    /\ Len(tx.vin) = 2
    /\ ~tx.vin[1].scriptSig.pushOnly /\ tx.vin[1].scriptSig.size <= 1650
    /\ tx.vin[2].scriptSig.pushOnly /\ tx.vin[2].scriptSig.size > 1650
    /\ out_reason = "scriptsig-not-pushonly"

---------------------------------------------------------------------------
(* The rules of AreInputsStandard and IsWitnessStandard, input by input.   *)

PrevScript(txin) == AccessCoin(txin.prevout).scriptPubKey

InputViolates(txin, rule) ==
    LET p2sh == PrevScript(txin).type = TX_SCRIPTHASH /\ txin.scriptSig.pushOnly
        sig == txin.scriptSig
    IN CASE rule = "script-unknown" -> ~Solver(PrevScript(txin)).ret
         [] rule = "scriptsig-failure" -> p2sh /\ ~sig.evalOk
         [] rule = "scriptcheck-missing" -> p2sh /\ sig.evalOk /\ sig.stack = <<>>
         [] rule = "scriptcheck-sigops" ->
                /\ p2sh /\ sig.evalOk /\ sig.stack # <<>>
                /\ Back(sig.stack).sigops > MAX_P2SH_SIGOPS

\* The script a witness belongs to: the previous script, or the decoded
\* redeem script when that one is pay-to-script-hash.
Decodes(txin) ==
    PrevScript(txin).type = TX_SCRIPTHASH
        => txin.scriptSig.evalOk /\ txin.scriptSig.stack # <<>>
Effective(txin) ==
    IF PrevScript(txin).type = TX_SCRIPTHASH
    THEN Back(txin.scriptSig.stack) ELSE PrevScript(txin)
IsP2WSH(script) == script.wlen = 32 /\ script.wver = 0

WitnessViolates(txin, rule) ==
    LET w == txin.scriptWitness
        p2sh == w # <<>> /\ PrevScript(txin).type = TX_SCRIPTHASH
        sig == txin.scriptSig
        p2wsh == w # <<>> /\ Decodes(txin) /\ IsP2WSH(Effective(txin))
    IN CASE rule = "scriptsig-failure" -> p2sh /\ ~sig.evalOk
         [] rule = "scriptcheck-missing" -> p2sh /\ sig.evalOk /\ sig.stack = <<>>
         [] rule = "nonwitness-input" ->
                w # <<>> /\ Decodes(txin) /\ Effective(txin).wlen = 0
         [] rule = "script-size" ->
                p2wsh /\ w[Len(w)] > MAX_STANDARD_P2WSH_SCRIPT_SIZE
         [] rule = "stackitem-count" ->
                p2wsh /\ Len(w) - 1 > MAX_STANDARD_P2WSH_STACK_ITEMS
         [] rule = "stackitem-size" ->
                p2wsh /\ \E j \in 1..(Len(w) - 1) :
                            w[j] > MAX_STANDARD_P2WSH_STACK_ITEM_SIZE

Outcome == [ret |-> ret, out_reason |-> out_reason]

\* C3: adding to the ignore set a reason that is not in it and whose rule
\* the transaction does not violate leaves verdict and reason of each of
\* the three checks as they are.
C3_IrrelevantOverride ==
    /\ pc = "IsStandardTx" =>
         \A r \in Range(StdReasons) \ (StdViolations(tx) \cup ignore_rejects) :
            IsStandardTx(tx, "", witnessEnabled, ignore_rejects \cup {r}) = Outcome
    /\ pc = "AreInputsStandard" =>
         \A r \in {x \in InputReasons : (reason_prefix \o x) \notin ignore_rejects} :
            (\A i \in Indices(tx.vin) : ~InputViolates(tx.vin[i], r)) =>
                AreInputsStandard(tx, reason_prefix, "",
                                  ignore_rejects \cup {reason_prefix \o r}) = Outcome
    /\ pc = "IsWitnessStandard" =>
         \A r \in {x \in WitnessReasons : (reason_prefix \o x) \notin ignore_rejects} :
            (\A i \in Indices(tx.vin) : ~WitnessViolates(tx.vin[i], r)) =>
                IsWitnessStandard(tx, reason_prefix, "",
                                  ignore_rejects \cup {reason_prefix \o r}) = Outcome

\* A rejected transaction whose inputs are all push-only and whose ignore
\* set leaves only the push-only rule out of the input loop's guard.
C3_Witness ==
    /\ pc = "IsStandardTx"
    /\ ret = FALSE
    /\ ignore_rejects = {"scriptsig-size"}
    /\ "scriptsig-not-pushonly" \notin StdViolations(tx)
    /\ tx.vin # <<>>

\* The loop of a check has come to input i: no earlier input rejected.
ReachedByInputs(i) ==
    ~InputLoop(SubSeq(tx.vin, 1, i - 1), 1, "", reason_prefix, ignore_rejects).rejected
ReachedByWitness(i) ==
    ~WitnessLoop(SubSeq(tx.vin, 1, i - 1), 1, "", reason_prefix, ignore_rejects).rejected

RejectedAs(reason) == ret = FALSE /\ out_reason = reason_prefix \o reason

StructuralReasons == {"scriptsig-failure", "scriptcheck-missing", "nonwitness-input"}

SpendsP2SH(txin) == PrevScript(txin).type = TX_SCRIPTHASH

SigOpsIgnored == (reason_prefix \o "scriptcheck-sigops") \in ignore_rejects

\* C8: AreInputsStandard passes every coinbase; in any other transaction it
\* steps over an input that spends P2SH with a scriptSig that is not
\* push-only, and an input whose decoded redeem script has more than
\* MAX_P2SH_SIGOPS accurate sigops fails the check with scriptcheck-sigops
\* unless that reason is ignored, in which case the check goes on to the
\* next input. No other input is rejected with that reason.
C8_P2SHInputs ==
    pc = "AreInputsStandard" =>
        /\ IsCoinBase(tx) => ret = TRUE
        /\ ~IsCoinBase(tx) =>
             /\ \A i \in Indices(tx.vin) :
                  (ReachedByInputs(i) /\ SpendsP2SH(tx.vin[i])) =>
                     /\ ~tx.vin[i].scriptSig.pushOnly => ReachedByInputs(i + 1)
                     /\ InputViolates(tx.vin[i], "scriptcheck-sigops") =>
                          IF SigOpsIgnored THEN ReachedByInputs(i + 1)
                          ELSE RejectedAs("scriptcheck-sigops")
             /\ ReachedByInputs(Len(tx.vin) + 1) => ret = TRUE
             /\ RejectedAs("scriptcheck-sigops") =>
                  \E i \in Indices(tx.vin) :
                      InputViolates(tx.vin[i], "scriptcheck-sigops")

\* A redeem script over the sigop limit behind an input that is stepped
\* over because its scriptSig is not push-only, then one behind a push-only
\* scriptSig, rejected.
C8_Witness ==
    /\ pc = "AreInputsStandard"
    /\ Len(tx.vin) = 2
    /\ SpendsP2SH(tx.vin[1]) /\ ~tx.vin[1].scriptSig.pushOnly
    /\ tx.vin[1].scriptSig.evalOk
    /\ Back(tx.vin[1].scriptSig.stack).sigops > MAX_P2SH_SIGOPS
    /\ InputViolates(tx.vin[2], "scriptcheck-sigops")
    /\ RejectedAs("scriptcheck-sigops")

WithinP2WSHLimits(w) ==
    /\ w[Len(w)] <= MAX_STANDARD_P2WSH_SCRIPT_SIZE
    /\ Len(w) - 1 <= MAX_STANDARD_P2WSH_STACK_ITEMS
    /\ \A j \in 1..(Len(w) - 1) : w[j] <= MAX_STANDARD_P2WSH_STACK_ITEM_SIZE

\* An input that the claim covers: no witness, or a witness for a witness
\* program (spent directly or behind one decoded P2SH level) that is either
\* a P2WSH program with its stack within the three limits or a program of
\* another version or length.
WitnessInLimits(txin) ==
    txin.scriptWitness # <<>> =>
        /\ Decodes(txin)
        /\ Effective(txin).wlen > 0
        /\ IsP2WSH(Effective(txin)) => WithinP2WSHLimits(txin.scriptWitness)

\* C9: when every input with a witness spends a witness program and the
\* P2WSH ones keep witness script, item count and item sizes within the
\* limits, IsWitnessStandard returns true whatever the ignore set; programs
\* of another version or length pass whatever the sizes in their witness.
C9_WithinLimitsPasses ==
    (pc = "IsWitnessStandard"
        /\ \A i \in Indices(tx.vin) : WitnessInLimits(tx.vin[i])) => ret = TRUE

\* A P2WSH input whose witness sits exactly at the three limits, next to a
\* witness program of another version with an oversized witness.
C9_Witness ==
    /\ pc = "IsWitnessStandard"
    /\ ret = TRUE
    /\ ignore_rejects = {}
    /\ Len(tx.vin) = 2
    /\ PrevScript(tx.vin[1]) = P2WSH /\ tx.vin[1].scriptWitness = AtLimits
    /\ PrevScript(tx.vin[2]) = WitnessV1
    /\ ~WithinP2WSHLimits(tx.vin[2].scriptWitness)

\* The reasons each check can give, and those among them that the ignore
\* set can switch off.
Ignorable(fn) ==
    CASE fn = "IsStandardTx" -> Range(StdReasons)
      [] fn = "AreInputsStandard" -> {"script-unknown", "scriptcheck-sigops"}
      [] fn = "IsWitnessStandard" -> {"script-size", "stackitem-count", "stackitem-size"}
ReasonsOf(fn) ==
    CASE fn = "IsStandardTx" -> Range(StdReasons)
      [] fn = "AreInputsStandard" -> InputReasons
      [] fn = "IsWitnessStandard" -> WitnessReasons
PrefixOf(fn) == IF fn = "IsStandardTx" THEN "" ELSE reason_prefix
ViolatedIn(fn, r) ==
    CASE fn = "IsStandardTx" -> ViolatesStd(tx, r)
      [] fn = "AreInputsStandard" ->
            \E i \in Indices(tx.vin) : InputViolates(tx.vin[i], r)
      [] fn = "IsWitnessStandard" ->
            \E i \in Indices(tx.vin) : WitnessViolates(tx.vin[i], r)

Checks == {"IsStandardTx", "AreInputsStandard", "IsWitnessStandard"}

\* C10: a check that returns true leaves the caller's reason string as it
\* was; one that returns false has set it to its prefix followed by the
\* identifier of a rule the transaction violates, and for an ignorable rule
\* that prefixed identifier is not in the ignore set.
C10_ReasonWrittenOnReject ==
    pc \in Checks =>
        /\ ret = TRUE => out_reason = ""
        /\ ret = FALSE =>
             \E r \in ReasonsOf(pc) :
                /\ out_reason = PrefixOf(pc) \o r
                /\ ViolatedIn(pc, r)
                /\ r \in Ignorable(pc) => out_reason \notin ignore_rejects

\* A prefixed reason in the ignore set, its rule violated, the check passes
\* and the reason string is still the caller's.
C10_Witness ==
    /\ pc = "AreInputsStandard"
    /\ reason_prefix # ""
    /\ SigOpsIgnored
    /\ ViolatedIn(pc, "scriptcheck-sigops")
    /\ ret = TRUE
    /\ out_reason = ""

---------------------------------------------------------------------------
(* The dust functions on their own.                                        *)

InitDust ==
    /\ InitGlobals
    /\ InitCall("start")
    /\ NoTx
    /\ NoSizeArgs
    /\ txout \in {TxOut(v, script) : v \in 0..MaxValue, script \in DustScripts}
    /\ dustRelayFeeIn \in FeeRates

CallGetDustThreshold ==
    /\ pc = "start"
    /\ ret' = GetDustThreshold(txout, dustRelayFeeIn)
    /\ pc' = "GetDustThreshold"
    /\ UNCHANGED <<Inputs, out_reason>>

CallIsDust ==
    /\ pc = "start"
    /\ ret' = IsDust(txout, dustRelayFeeIn)
    /\ pc' = "IsDust"
    /\ UNCHANGED <<Inputs, out_reason>>

NextDust == CallGetDustThreshold \/ CallIsDust

SpecDust == InitDust /\ [][NextDust]_vars

Spendable(out) == ~out.scriptPubKey.opreturn
IsWitnessOut(out) == out.scriptPubKey.wlen > 0

\* Bytes of the input that would spend the output.
SpendingInputBytes(out) ==
    32 + 4 + 1 + 4 + (IF IsWitnessOut(out) THEN 107 \div 4 ELSE 107)

\* C5 (as amended): the threshold of a spendable output is the fee for the
\* output's own serialized size plus the estimated size of the input
\* spending it (the 32+4+1+4 skeleton plus 107, or 107 divided by 4 for a
\* witness program).
C5_ThresholdIsFeeOfOutputAndInput ==
    (pc = "GetDustThreshold" /\ Spendable(txout)) =>
        ret = GetFee(dustRelayFeeIn, GetSerializeSize(txout) + SpendingInputBytes(txout))

\* C5 (as claimed): the fee for the spending input's size alone.
C5_ThresholdIsFeeOfInputOnly ==
    (pc = "GetDustThreshold" /\ Spendable(txout)) =>
        ret = GetFee(dustRelayFeeIn, SpendingInputBytes(txout))

\* A pay-to-pubkey-hash output at the default rate: 546 satoshis.
C5_Witness ==
    /\ pc = "GetDustThreshold"
    /\ txout.scriptPubKey = P2PKH
    /\ dustRelayFeeIn = DUST_RELAY_TX_FEE
    /\ ret = 546

\* C6 (as amended): an output with a 25-byte non-witness script (34 bytes
\* serialized) is dust exactly below 182 * rate / 1000, one with a 22-byte
\* witness-v0 script (31 bytes) exactly below 98 * rate / 1000; for any
\* spendable output the boundary is the fee of its serialized size plus
\* 148 (67 for a witness program), so it moves with the script length.
C6_DustBoundary ==
    (pc = "IsDust" /\ Spendable(txout)) =>
        /\ (~IsWitnessOut(txout) /\ txout.scriptPubKey.size = 25) =>
              (ret <=> txout.nValue < (182 * dustRelayFeeIn) \div 1000)
        /\ (IsWitnessOut(txout) /\ txout.scriptPubKey.wver = 0
              /\ txout.scriptPubKey.size = 22) =>
              (ret <=> txout.nValue < (98 * dustRelayFeeIn) \div 1000)
        /\ ret <=> txout.nValue <
              ((GetSerializeSize(txout) + (IF IsWitnessOut(txout) THEN 67 ELSE 148))
                  * dustRelayFeeIn) \div 1000

\* C6 (as claimed): 182 for every spendable non-witness output and 98 for
\* every witness-v0 output, whatever the length of the script.
C6_BoundaryForEveryScript ==
    (pc = "IsDust" /\ Spendable(txout)) =>
        /\ ~IsWitnessOut(txout) =>
              (ret <=> txout.nValue < (182 * dustRelayFeeIn) \div 1000)
        /\ (IsWitnessOut(txout) /\ txout.scriptPubKey.wver = 0) =>
              (ret <=> txout.nValue < (98 * dustRelayFeeIn) \div 1000)

\* One satoshi under the 546 of a pay-to-pubkey-hash output: dust.
C6_Witness ==
    /\ pc = "IsDust"
    /\ txout = TxOut(545, P2PKH)
    /\ dustRelayFeeIn = DUST_RELAY_TX_FEE
    /\ ret = TRUE

---------------------------------------------------------------------------
(* The virtual size on its own.                                            *)

InitVSize ==
    /\ mapInputs = CoinsView
    /\ dustRelayFee = DUST_RELAY_TX_FEE
    /\ nBytesPerSigOp \in BytesPerSigOps
    /\ InitCall("start")
    /\ NoTx
    /\ NoDustArgs
    /\ nWeight \in (0..MaxWeight) \cup {1000}
    /\ nSigOpCost \in (0..MaxSigOpCost) \cup {100 * b : b \in BytesPerSigOps}

CallGetVirtualTransactionSize ==
    /\ pc = "start"
    /\ ret' = GetVirtualTransactionSize(nWeight, nSigOpCost)
    /\ pc' = "GetVirtualTransactionSize"
    /\ UNCHANGED <<Inputs, out_reason>>

NextVSize == CallGetVirtualTransactionSize

SpecVSize == InitVSize /\ [][NextVSize]_vars

\* x / 4 rounded up.
CeilQuarter(x) == -((-x) \div 4)

\* C7 (as amended): the virtual size is ceil(max(weight, sigopCost *
\* bytesPerSigop) / 4); it is 250 for weight 1000 and no sigops, and for
\* weight 0 and sigopCost = 100 * bytesPerSigop it is
\* ceil(100 * bytesPerSigop^2 / 4) = 25 * bytesPerSigop^2.
C7_VirtualSize ==
    pc = "GetVirtualTransactionSize" =>
        /\ ret = CeilQuarter(IF nWeight >= nSigOpCost * nBytesPerSigOp
                             THEN nWeight ELSE nSigOpCost * nBytesPerSigOp)
        /\ (nWeight = 1000 /\ nSigOpCost = 0) => ret = 250
        /\ (nWeight = 0 /\ nSigOpCost = 100 * nBytesPerSigOp) =>
              ret = 25 * nBytesPerSigOp * nBytesPerSigOp

\* C7 (as claimed): 100 for weight 0 and sigopCost = 100 * bytesPerSigop.
C7_SigOpFloorIsHundred ==
    (pc = "GetVirtualTransactionSize"
        /\ nWeight = 0 /\ nSigOpCost = 100 * nBytesPerSigOp) => ret = 100

\* The default bytes-per-sigop, weight 0, sigop cost 100 times it.
C7_Witness ==
    /\ pc = "GetVirtualTransactionSize"
    /\ nBytesPerSigOp = DEFAULT_BYTES_PER_SIGOP
    /\ nWeight = 0
    /\ nSigOpCost = 100 * nBytesPerSigOp
    /\ ret = 25 * nBytesPerSigOp * nBytesPerSigOp

====
